---- MODULE Spec2Model ----
(***************************************************************************)
(* Error-diffusion dithering (src/src/main.rs): luminosity, increment_buffer,*)
(* atkinson, floyd_steinberg and the order in which main calls them.         *)
(*                                                                           *)
(* Numbers.  The program computes in f32, and so does the model: an f32      *)
(* value is the pair <<m, e>> that stands for m * 2^e, with m = 0, e = 0 for *)
(* 0.0 and 2^23 <= |m| < 2^24 otherwise (a 24-bit significand).  F32Add,     *)
(* F32Sub, F32Mul and F32Div return the exact result rounded to the nearest  *)
(* such value, ties to the even significand, as IEEE 754 binary32 does.  The *)
(* values of the program have magnitudes between 2^-126 and 2^8, so NaN,     *)
(* infinities and subnormals do not occur; -0.0 does not occur either (no    *)
(* operation of the program produces it from these values).  All integers    *)
(* the operators form stay below 2^31.                                       *)
(*                                                                           *)
(* Build.  buffer.len() - 1 is a usize subtraction: with overflow checks (a  *)
(* debug build) it panics for an empty Vec, without them (a release build)   *)
(* it wraps to usize::MAX, which the cast to i32 turns into -1.  The build   *)
(* is the variable overflow_checks, chosen in Init.  The cast `i as i32` is  *)
(* the identity for the indices of the model (all below 2^31).               *)
(***************************************************************************)
EXTENDS Integers, Sequences, FiniteSets

\* ---------------------------------------------------------------- bounds
\* largest image of Spec and of SpecIB
MaxW == 4
MaxH == 3
IBMaxW == 2
IBMaxH == 2

\* ------------------------------------------------------------- constants
WHITE == 255
BLACK == 0

\* ------------------------------------------------------------- variables
VARIABLES
    overflow_checks,\* the build: TRUE if integer overflow panics (debug),
                    \* FALSE if it wraps (release)
    main_pc,        \* main: "start", "decode", "atkinson", "floyd_steinberg",
                    \* "save"; "returned" after the usage message, "panic"
                    \* after a failed expect
    img,            \* the decoded RgbaImage: its dimensions img.w, img.h and
                    \* its pixels img.px[x][y] = <<r, g, b, a>>
    atk_pc,         \* atkinson:        "idle", "loop", "done", "panic"
    atk_buffer,     \* atkinson's local buffer: Vec<Vec<f32>>, buffer[x][y]
    atk_new_img,    \* atkinson's local new_img: a GrayImage, .w, .h, .px[x][y]
    atk_x, atk_y,   \* atkinson's loop variables x, y
    atk_visits,     \* history: the pixels atkinson's loop body has run for
    fs_pc,          \* floyd_steinberg: "idle", "loop", "done", "panic"
    fs_buffer,
    fs_new_img,
    fs_x, fs_y,
    fs_visits,
    ib              \* the last direct call of increment_buffer (SpecIB only)

atk_vars == <<atk_pc, atk_buffer, atk_new_img, atk_x, atk_y, atk_visits>>
fs_vars == <<fs_pc, fs_buffer, fs_new_img, fs_x, fs_y, fs_visits>>
vars == <<overflow_checks, main_pc, img, atk_vars, fs_vars, ib>>

\* ------------------------------------------------------------------ f32
P2 ==
    << 1, 2, 4, 8, 16, 32, 64, 128, 256, 512, 1024, 2048, 4096, 8192, 16384,
       32768, 65536, 131072, 262144, 524288, 1048576, 2097152, 4194304,
       8388608, 16777216, 33554432, 67108864, 134217728, 268435456,
       536870912, 1073741824 >>

\* 2^k, 0 <= k <= 30
Pow2(k) == P2[k + 1]

Abs(n) == IF n < 0 THEN 0 - n ELSE n
Sign(n) == IF n < 0 THEN 0 - 1 ELSE IF n > 0 THEN 1 ELSE 0

\* the number of bits of a, 0 <= a < 2^31
BitLen(a) ==
    IF a = 0 THEN 0
    ELSE IF a < Pow2(24) THEN CHOOSE k \in 1 .. 24 : Pow2(k - 1) <= a /\ a < Pow2(k)
    ELSE IF a < Pow2(25) THEN 25
    ELSE IF a < Pow2(26) THEN 26
    ELSE IF a < Pow2(27) THEN 27
    ELSE IF a < Pow2(28) THEN 28
    ELSE IF a < Pow2(29) THEN 29
    ELSE IF a < Pow2(30) THEN 30
    ELSE 31

\* The operators below come in pairs: the second binds the operands to
\* their values and applies the first, so that an operand given as an
\* expression is computed once.

\* The f32 nearest to n * 2^e (+ a positive fraction of 2^e below one half
\* of the last kept bit if sticky), ties to even.  With sticky, |n| >= 2^25.
RoundValue(n, k, e, sticky) ==
    IF n = 0 THEN <<0, 0>>
    ELSE IF k <= 24
    THEN <<n * Pow2(24 - k), e - (24 - k)>>
    ELSE LET d == k - 24
             q == Abs(n) \div Pow2(d)
             r == Abs(n) % Pow2(d)
             h == Pow2(d - 1)
             q2 == IF r > h \/ (r = h /\ (sticky \/ q % 2 = 1))
                   THEN q + 1 ELSE q
         IN  IF q2 = Pow2(24)
             THEN <<Sign(n) * Pow2(23), e + d + 1>>
             ELSE <<Sign(n) * q2, e + d>>

F32Round(n, e, sticky) ==
    CHOOSE v \in UNION {{RoundValue(nn, k, ee, ss) : k \in {BitLen(Abs(nn))}} :
                        nn \in {n}, ee \in {e}, ss \in {sticky}} : TRUE

\* f32::from(n) for a u8, and the f32 literals 1.0, 7.0, 8.0, 16.0, 255.0
F32From(n) == F32Round(n, 0, FALSE)

\* a + b.  The operand of the larger exponent is given 6 more bits; what the
\* other loses below them only breaks a tie.
AddValues(a, b) ==
    IF a[1] = 0 THEN b
    ELSE IF b[1] = 0 THEN a
    ELSE LET hi == IF a[2] >= b[2] THEN a ELSE b
             lo == IF a[2] >= b[2] THEN b ELSE a
             d == hi[2] - lo[2]
         IN  IF d <= 6 THEN F32Round(hi[1] * Pow2(d) + lo[1], lo[2], FALSE)
             ELSE IF d >= 26 THEN hi
             ELSE LET q == lo[1] \div Pow2(d - 6)
                      r == lo[1] % Pow2(d - 6)
                      n == hi[1] * 64 + q
                  IN  IF r = 0 THEN F32Round(n, hi[2] - 6, FALSE)
                      ELSE IF n >= 0 THEN F32Round(n, hi[2] - 6, TRUE)
                      ELSE F32Round(n + 1, hi[2] - 6, TRUE)

F32Add(a, b) == CHOOSE v \in {AddValues(x, y) : x \in {a}, y \in {b}} : TRUE

\* a - b
F32Sub(a, b) == CHOOSE v \in {AddValues(x, <<0 - y[1], y[2]>>) : x \in {a}, y \in {b}} : TRUE

\* a * b: the 48-bit product of the significands from 12-bit halves, its
\* leading 30 bits rounded
MulValues(a, b) ==
    IF a[1] = 0 \/ b[1] = 0 THEN <<0, 0>>
    ELSE LET ma == Abs(a[1])
             mb == Abs(b[1])
             ah == ma \div 4096
             al == ma % 4096
             bh == mb \div 4096
             bl == mb % 4096
             low == al * bl
             mid == ah * bl + al * bh + (low \div 4096)
             top == ah * bh + (mid \div 4096)
             rest == (mid % 4096) * 4096 + (low % 4096)
             n == top * 64 + (rest \div 262144)
         IN  F32Round(Sign(a[1]) * Sign(b[1]) * n, a[2] + b[2] + 18,
                      (rest % 262144) # 0)

F32Mul(a, b) == CHOOSE v \in {MulValues(x, y) : x \in {a}, y \in {b}} : TRUE

\* a / b, b # 0: 28 bits of the quotient of the significands by long
\* division, 7 bits at a time
DivValues(a, b) ==
    IF a[1] = 0 THEN <<0, 0>>
    ELSE LET ma == Abs(a[1])
             mb == Abs(b[1])
             r0 == ma % mb
             r1 == (r0 * 128) % mb
             r2 == (r1 * 128) % mb
             r3 == (r2 * 128) % mb
             r4 == (r3 * 128) % mb
             q == ((((ma \div mb) * 128 + ((r0 * 128) \div mb)) * 128
                       + ((r1 * 128) \div mb)) * 128
                       + ((r2 * 128) \div mb)) * 128 + ((r3 * 128) \div mb)
         IN  F32Round(Sign(a[1]) * Sign(b[1]) * q, a[2] - b[2] - 28, r4 # 0)

F32Div(a, b) == CHOOSE v \in {DivValues(x, y) : x \in {a}, y \in {b}} : TRUE

\* a < b
LtValues(a, b) ==
    IF a[1] > 0 /\ b[1] > 0
    THEN a[2] < b[2] \/ (a[2] = b[2] /\ a[1] < b[1])
    ELSE IF a[1] < 0 /\ b[1] < 0
    THEN b[2] < a[2] \/ (a[2] = b[2] /\ a[1] < b[1])
    ELSE Sign(a[1]) < Sign(b[1])

F32Lt(a, b) == \E x \in {a}, y \in {b} : LtValues(x, y)

\* a > b
F32Gt(a, b) == F32Lt(b, a)

\* the literals 0.0, 1.0 and 0.5
Zero == <<0, 0>>
One == <<8388608, -23>>
Half == <<8388608, -24>>

\* the literals 0.2126, 0.7152 and 0.0722 as f32
LumR == <<14267344, -26>>
LumG == <<11999065, -24>>
LumB == <<9690520, -27>>

\* ------------------------------------------------------------- the image
\* img.dimensions(): (w, h) of an RgbaImage or a GrayImage
Width(image) == image.w
Height(image) == image.h

\* Vec::len(): buffer.len() and buffer[0].len()
VecLen(v) == Cardinality(DOMAIN v)

\* pixels whose luminosity / 255.0 is 0.0, 0.25, 0.5, 0.50000006 (the f32
\* next above 0.5; 127.5 / 255 without rounding), 0.75 and 1.0
Palette ==
    << <<0, 0, 0, 255>>, <<8, 70, 166, 255>>, <<13, 163, 113, 255>>,
       <<78, 146, 90, 255>>, <<4, 243, 230, 255>>, <<255, 255, 255, 255>> >>

\* an image of wd x ht pixels: the colour f at the cell c, the colour b
\* elsewhere
Image(wd, ht, b, f, c) ==
    [w |-> wd, h |-> ht,
     px |-> [i \in 0 .. wd - 1 |-> [j \in 0 .. ht - 1 |->
                IF <<i, j>> = c THEN f ELSE b]]]

\* ----------------------------------------------------------- luminosity
\* 0.2126 * f32::from(r) + 0.7152 * f32::from(g) + 0.0722 * f32::from(b)
luminosity(pixel) ==
    F32Add(F32Add(F32Mul(LumR, F32From(pixel[1])), F32Mul(LumG, F32From(pixel[2]))),
           F32Mul(LumB, F32From(pixel[3])))

\* luminosity(pixel) / 255.0
Normalized(pixel) == F32Div(luminosity(pixel), F32From(255))

\* vec![vec![0.0; h]; w] and the "Fill buffer" loops
FillBuffer(image) ==
    [i \in 0 .. Width(image) - 1 |->
        [j \in 0 .. Height(image) - 1 |-> Normalized(image.px[i][j])]]

\* ImageBuffer::new(w, h): a zeroed GrayImage
NewImage(image) ==
    [w |-> Width(image), h |-> Height(image),
     px |-> [i \in 0 .. Width(image) - 1 |-> [j \in 0 .. Height(image) - 1 |-> 0]]]

\* ------------------------------------------------------ increment_buffer
\* (variant: a target outside the buffer is moved to the nearest edge)
increment_buffer_clamped(buffer, i, j, offx, offy, value) ==
    LET x == IF i + offx < 0 THEN 0
             ELSE IF i + offx > VecLen(buffer) - 1 THEN VecLen(buffer) - 1
             ELSE i + offx
        y == IF j + offy < 0 THEN 0
             ELSE IF j + offy > VecLen(buffer[0]) - 1 THEN VecLen(buffer[0]) - 1
             ELSE j + offy
    IN  [buffer |-> [buffer EXCEPT ![x][y] = F32Add(@, value)], panicked |-> FALSE]

\* (variant: a target outside the buffer wraps around to the opposite edge)
increment_buffer_wrapped(buffer, i, j, offx, offy, value) ==
    LET x == (i + offx) % VecLen(buffer)
        y == (j + offy) % VecLen(buffer[0])
    IN  [buffer |-> [buffer EXCEPT ![x][y] = F32Add(@, value)], panicked |-> FALSE]

\* result: the buffer after the call, and whether the call panicked.  The
\* four tests of line 40 are made from left to right; len - 1 with len = 0
\* panics with overflow checks and is -1 after the cast without them.
increment_buffer(buffer, i, j, offx, offy, value) ==
    LET x == i + offx
        y == j + offy
        return == [buffer |-> buffer, panicked |-> FALSE]
        panic == [buffer |-> buffer, panicked |-> TRUE]
    IN  IF x < 0 THEN return
        ELSE IF VecLen(buffer) = 0 THEN (IF overflow_checks THEN panic ELSE return)
        ELSE IF x > VecLen(buffer) - 1 THEN return
        ELSE IF y < 0 THEN return
        ELSE IF VecLen(buffer[0]) = 0 THEN (IF overflow_checks THEN panic ELSE return)
        ELSE IF y > VecLen(buffer[0]) - 1 THEN return
        ELSE IF x \notin DOMAIN buffer \/ y \notin DOMAIN buffer[x] THEN panic
        ELSE [buffer |-> [buffer EXCEPT ![x][y] = F32Add(@, value)],
              panicked |-> FALSE]

\* ---------------------------------------------------------- the kernels
\* the increment_buffer calls of one loop body, in order:
\* <<offx, offy, k, d>> stands for increment_buffer(.., offx, offy, error * k / d)
\* (variant: the textbook Atkinson kernel, six distinct cells)
AtkinsonTapsTextbook ==
    << <<1, 0, 1, 8>>, <<2, 0, 1, 8>>, <<-1, 1, 1, 8>>,
       <<0, 1, 1, 8>>, <<1, 1, 1, 8>>, <<0, 2, 1, 8>> >>

AtkinsonTaps ==
    << <<-1, 1, 1, 8>>, <<0, 1, 1, 8>>, <<0, 2, 1, 8>>,
       <<1, 1, 1, 8>>, <<0, 1, 1, 8>>, <<0, 2, 1, 8>> >>

\* (variant: the weights of (-1,+1) and (0,+1) exchanged)
FloydTapsSwapped ==
    << <<1, 0, 7, 16>>, <<-1, 1, 5, 16>>, <<0, 1, 3, 16>>, <<1, 1, 1, 16>> >>

FloydTaps ==
    << <<1, 0, 7, 16>>, <<-1, 1, 3, 16>>, <<0, 1, 5, 16>>, <<1, 1, 1, 16>> >>

\* (variant: the threshold is >= 0.5)
QuantizeGE(old_pxl) == IF ~F32Lt(old_pxl, Half) THEN One ELSE Zero

\* (variant: the threshold is 1.0)
QuantizeAtOne(old_pxl) == IF F32Gt(old_pxl, One) THEN One ELSE Zero

\* new_pxl = if old_pxl > 0.5 { 1.0 } else { 0.0 }
Quantize(old_pxl) == IF F32Gt(old_pxl, Half) THEN One ELSE Zero

\* error = old_pxl - new_pxl
Error(old_pxl) == F32Sub(old_pxl, Quantize(old_pxl))

\* error * k / d, as the code writes it: (error * k.0) / d.0
Share(error, k, d) == F32Div(F32Mul(error, F32From(k)), F32From(d))

\* the calls of taps one after the other; a panic ends them.  (r ranges over
\* the one result of the first call, so that it is computed once.)
RECURSIVE Diffuse(_, _, _, _, _)
Diffuse(taps, buffer, i, j, error) ==
    IF taps = << >>
    THEN [buffer |-> buffer, panicked |-> FALSE]
    ELSE LET t == Head(taps)
         IN  CHOOSE out \in
                 { IF r.panicked THEN r ELSE Diffuse(Tail(taps), r.buffer, i, j, error) :
                     r \in {increment_buffer(buffer, i, j, t[1], t[2],
                                             Share(error, t[3], t[4]))} } : TRUE

\* (variant: new_pxl is stored unscaled, 1 for white)
PxlUnscaled(new_pxl) == IF new_pxl = One THEN 1 ELSE 0

\* pxl = if new_pxl == 1.0 { WHITE } else { BLACK }
Pxl(new_pxl) == IF new_pxl = One THEN WHITE ELSE BLACK

\* one loop body at (i, j)
Body(taps, buffer, new_img, i, j) ==
    LET old_pxl == buffer[i][j]
    IN  CHOOSE out \in
            { [buffer |-> d.buffer,
               panicked |-> d.panicked,
               new_img |-> [new_img EXCEPT !.px[i][j] = Pxl(Quantize(old_pxl))]] :
                 d \in {Diffuse(taps, buffer, i, j, Error(old_pxl))} } : TRUE

\* (variant: the range is 0..n-1 and stops one short)
LoopRangeShort(n) == 0 .. n - 2

\* the range 0..n of a for loop: 0, 1, .., n - 1
LoopRange(n) == 0 .. n - 1

\* the whole of one kernel function from its loop position (x, y) on, with
\* for x in 0..w { for y in 0..h { body } }: the GrayImage it returns, or
\* "panic"
RECURSIVE Pass(_, _, _, _, _, _, _)
Pass(taps, buffer, new_img, x, y, wd, ht) ==
    IF x \notin LoopRange(wd)
    THEN new_img
    ELSE IF y \notin LoopRange(ht)
    THEN Pass(taps, buffer, new_img, x + 1, 0, wd, ht)
    ELSE LET r == Body(taps, buffer, new_img, x, y)
         IN  IF r.panicked THEN "panic"
             ELSE Pass(taps, r.buffer, r.new_img, x, y + 1, wd, ht)

\* atkinson(&img) and floyd_steinberg(&img) as functions of the image alone
atkinson(image) ==
    Pass(AtkinsonTaps, FillBuffer(image), NewImage(image), 0, 0, Width(image), Height(image))

floyd_steinberg(image) ==
    Pass(FloydTaps, FillBuffer(image), NewImage(image), 0, 0, Width(image), Height(image))

\* ----------------------------------------------------------------- Init
NoImage == [w |-> 0, h |-> 0, px |-> << >>]

NoCall == [called |-> FALSE, before |-> << >>, i |-> 0, j |-> 0, offx |-> 0,
           offy |-> 0, value |-> Zero, after |-> << >>, panicked |-> FALSE]

\* main at its first line, in either build
Init ==
    /\ overflow_checks \in BOOLEAN
    /\ main_pc = "start"
    /\ img = NoImage
    /\ atk_pc = "idle" /\ atk_buffer = << >> /\ atk_new_img = NoImage
    /\ atk_x = 0 /\ atk_y = 0 /\ atk_visits = << >>
    /\ fs_pc = "idle" /\ fs_buffer = << >> /\ fs_new_img = NoImage
    /\ fs_x = 0 /\ fs_y = 0 /\ fs_visits = << >>
    /\ ib = NoCall

\* lines 143-147: with fewer than two arguments (argc counts the program's
\* name) main prints the usage and returns
MainArgs ==
    /\ main_pc = "start"
    /\ \E argc \in 1 .. 2 :
          main_pc' = IF argc < 2 THEN "returned" ELSE "decode"
    /\ UNCHANGED <<overflow_checks, img, atk_vars, fs_vars, ib>>

\* lines 151-155, ImageReader::open(file_path).expect(..).decode().expect(..)
\* .to_rgba8(): a file that cannot be opened and a file that is no image make
\* expect panic; otherwise img is an image of at most maxw x maxh pixels,
\* none included, in one colour of the palette with one pixel in a second
\* colour
Decode(maxw, maxh) ==
    /\ main_pc = "decode"
    /\ \E file \in {"open fails", "decode fails", "image"} :
          IF file # "image"
          THEN /\ main_pc' = "panic"
               /\ UNCHANGED img
          ELSE /\ \E wd \in 0 .. maxw, ht \in 0 .. maxh,
                     b \in 1 .. Len(Palette), f \in 1 .. Len(Palette) :
                     \E c \in ((0 .. wd - 1) \X (0 .. ht - 1)) \cup {<<0, 0>>} :
                         img' = Image(wd, ht, Palette[b], Palette[f], c)
               /\ main_pc' = "atkinson"
    /\ UNCHANGED <<overflow_checks, atk_vars, fs_vars, ib>>

MainDecode == Decode(MaxW, MaxH)

\* ------------------------------------------------------------- atkinson
\* main calls atkinson(&img): lines 61-70
AtkinsonCall ==
    /\ main_pc = "atkinson"
    /\ atk_pc = "idle"
    /\ atk_pc' = "loop"
    /\ atk_new_img' = NewImage(img)
    /\ atk_buffer' = FillBuffer(img)
    /\ atk_x' = 0 /\ atk_y' = 0
    /\ UNCHANGED <<overflow_checks, main_pc, img, atk_visits, fs_vars, ib>>

\* one body of the inner loop, and y += 1
AtkinsonPixel ==
    /\ atk_pc = "loop"
    /\ atk_x \in LoopRange(Width(img))
    /\ atk_y \in LoopRange(Height(img))
    /\ \E r \in {Body(AtkinsonTaps, atk_buffer, atk_new_img, atk_x, atk_y)} :
           IF r.panicked
           THEN /\ atk_pc' = "panic"
                /\ UNCHANGED <<atk_buffer, atk_new_img, atk_y, atk_visits>>
           ELSE /\ atk_buffer' = r.buffer
                /\ atk_new_img' = r.new_img
                /\ atk_y' = atk_y + 1
                /\ atk_visits' = Append(atk_visits, <<atk_x, atk_y>>)
                /\ UNCHANGED atk_pc
    /\ UNCHANGED <<overflow_checks, main_pc, img, atk_x, fs_vars, ib>>

\* the inner loop is over: x += 1, and y starts again at 0
AtkinsonNextColumn ==
    /\ atk_pc = "loop"
    /\ atk_x \in LoopRange(Width(img))
    /\ atk_y \notin LoopRange(Height(img))
    /\ atk_x' = atk_x + 1 /\ atk_y' = 0
    /\ UNCHANGED <<overflow_checks, main_pc, img, atk_pc, atk_buffer, atk_new_img,
                   atk_visits, fs_vars, ib>>

\* the outer loop is over: atkinson returns new_img to main
AtkinsonReturn ==
    /\ atk_pc = "loop"
    /\ atk_x \notin LoopRange(Width(img))
    /\ atk_pc' = "done"
    /\ main_pc' = "floyd_steinberg"
    /\ UNCHANGED <<overflow_checks, img, atk_buffer, atk_new_img, atk_x, atk_y,
                   atk_visits, fs_vars, ib>>

\* ------------------------------------------------------ floyd_steinberg
\* main calls floyd_steinberg(&img) once atkinson has returned: lines 109-118
FloydCall ==
    /\ main_pc = "floyd_steinberg"
    /\ fs_pc = "idle"
    /\ fs_pc' = "loop"
    /\ fs_new_img' = NewImage(img)
    /\ fs_buffer' = FillBuffer(img)
    /\ fs_x' = 0 /\ fs_y' = 0
    /\ UNCHANGED <<overflow_checks, main_pc, img, fs_visits, atk_vars, ib>>

FloydPixel ==
    /\ fs_pc = "loop"
    /\ fs_x \in LoopRange(Width(img))
    /\ fs_y \in LoopRange(Height(img))
    /\ \E r \in {Body(FloydTaps, fs_buffer, fs_new_img, fs_x, fs_y)} :
           IF r.panicked
           THEN /\ fs_pc' = "panic"
                /\ UNCHANGED <<fs_buffer, fs_new_img, fs_y, fs_visits>>
           ELSE /\ fs_buffer' = r.buffer
                /\ fs_new_img' = r.new_img
                /\ fs_y' = fs_y + 1
                /\ fs_visits' = Append(fs_visits, <<fs_x, fs_y>>)
                /\ UNCHANGED fs_pc
    /\ UNCHANGED <<overflow_checks, main_pc, img, fs_x, atk_vars, ib>>

FloydNextColumn ==
    /\ fs_pc = "loop"
    /\ fs_x \in LoopRange(Width(img))
    /\ fs_y \notin LoopRange(Height(img))
    /\ fs_x' = fs_x + 1 /\ fs_y' = 0
    /\ UNCHANGED <<overflow_checks, main_pc, img, fs_pc, fs_buffer, fs_new_img,
                   fs_visits, atk_vars, ib>>

FloydReturn ==
    /\ fs_pc = "loop"
    /\ fs_x \notin LoopRange(Width(img))
    /\ fs_pc' = "done"
    /\ main_pc' = "save"
    /\ UNCHANGED <<overflow_checks, img, fs_buffer, fs_new_img, fs_x, fs_y,
                   fs_visits, atk_vars, ib>>

\* ----------------------------------------------------------------- main
\* main, lines 143-158: the arguments, decode, atkinson(&img),
\* floyd_steinberg(&img)
Next ==
    \/ MainArgs
    \/ MainDecode
    \/ AtkinsonCall
    \/ AtkinsonPixel
    \/ AtkinsonNextColumn
    \/ AtkinsonReturn
    \/ FloydCall
    \/ FloydPixel
    \/ FloydNextColumn
    \/ FloydReturn

Spec == Init /\ [][Next]_vars

\* ------------------------------------- increment_buffer called directly
\* The kernels call increment_buffer from their loop bodies only: on the
\* buffer of an image with at least one pixel, at a pixel (i, j) of it.
Offsets == -2 .. 2

\* the values 0.125 and -0.0625
Amounts == <<Share(One, 1, 8), Share(F32Sub(Zero, One), 1, 16)>>

IBDecode == Decode(IBMaxW, IBMaxH)

IncrementBufferCall ==
    /\ main_pc = "atkinson"
    /\ ~ib.called
    /\ \E before \in {FillBuffer(img)} :
       \E i \in LoopRange(Width(img)), j \in LoopRange(Height(img)),
          offx \in Offsets, offy \in Offsets, v \in 1 .. Len(Amounts) :
          LET r == increment_buffer(before, i, j, offx, offy, Amounts[v])
          IN  ib' = [called |-> TRUE, before |-> before, i |-> i, j |-> j,
                     offx |-> offx, offy |-> offy, value |-> Amounts[v],
                     after |-> r.buffer, panicked |-> r.panicked]
    /\ UNCHANGED <<overflow_checks, main_pc, img, atk_vars, fs_vars>>

NextIB == MainArgs \/ IBDecode \/ IncrementBufferCall

SpecIB == Init /\ [][NextIB]_vars
\* ============================================================== claims
W == Width(img)
H == Height(img)
Cells == (0 .. W - 1) \X (0 .. H - 1)
Visited(visits) == {visits[k] : k \in 1 .. Len(visits)}
Last(visits) == visits[Len(visits)]

\* ------------------------------------------- exact sums of f32 values
\* A term <<c, v>> is the real number c * v, c an integer of at most 16 in
\* size and v an f32 value.  A sum of terms is held in digits of 12 bits,
\* digit j in units of 2^(12 j - 240); the exponents of the buffer values lie
\* between -240 and -22.  TermDigit is what a term adds to digit j.
TermDigit(t, j) ==
    LET m == t[2][1]
        sh == t[2][2] + 240
        s == Pow2(sh % 12)
    IN  IF m = 0 THEN 0
        ELSE IF j = sh \div 12 THEN t[1] * (m % 4096) * s
        ELSE IF j = (sh \div 12) + 1 THEN t[1] * (m \div 4096) * s
        ELSE 0

RECURSIVE DigitSum(_, _)
DigitSum(terms, j) ==
    IF terms = << >> THEN 0
    ELSE TermDigit(Head(terms), j) + DigitSum(Tail(terms), j)

\* the digits from j on, with the carry into digit j, are all zero
RECURSIVE CarryZero(_, _, _)
CarryZero(terms, j, carry) ==
    IF j > 20 THEN carry = 0
    ELSE LET t == DigitSum(terms, j) + carry
         IN  t % 4096 = 0 /\ CarryZero(terms, j + 1, t \div 4096)

\* the terms add up to 0 as real numbers
RealZero(terms) == CarryZero(terms, 0, 0)

\* -------------------------------------------------------------------- C1
\* a grid of the image's dimensions holding only 0 and 255
IsBinaryGrid(g) ==
    /\ Width(g) = W /\ Height(g) = H
    /\ DOMAIN g.px = 0 .. W - 1
    /\ \A i \in 0 .. W - 1 :
          /\ DOMAIN g.px[i] = 0 .. H - 1
          /\ \A j \in 0 .. H - 1 : g.px[i][j] \in {0, 255}

\* C1: when atkinson or floyd_steinberg returns, its output grid has the
\* dimensions W x H of the input and every cell of it is 0 or 255.
C1_OutputIsBinary ==
    /\ atk_pc = "done" => IsBinaryGrid(atk_new_img)
    /\ fs_pc = "done" => IsBinaryGrid(fs_new_img)
    /\ atk_pc # "panic" /\ fs_pc # "panic"

\* both functions have returned for a 3 x 3 image, each output holding both colours
C1_Witness ==
    /\ atk_pc = "done" /\ fs_pc = "done" /\ W = 3 /\ H = 3
    /\ \E c \in Cells, d \in Cells :
          /\ atk_new_img.px[c[1]][c[2]] = 255 /\ atk_new_img.px[d[1]][d[2]] = 0
    /\ \E c \in Cells, d \in Cells :
          /\ fs_new_img.px[c[1]][c[2]] = 255 /\ fs_new_img.px[d[1]][d[2]] = 0

\* -------------------------------------------------------------------- C2
\* the input has at least one pixel, and every pixel of it has the normalized
\* luminance 0.5 (the f32 value the program computes for it)
UniformHalf == W >= 1 /\ H >= 1 /\ \A c \in Cells : Normalized(img.px[c[1]][c[2]]) = Half

AllBlack(g) == \A c \in Cells : g.px[c[1]][c[2]] = 0

\* C2 as stated: for a uniform input of normalized luminance exactly 0.5,
\* every output pixel of both kernels is black, for every W, H >= 1.
C2_Original ==
    UniformHalf =>
        /\ atk_pc = "done" => AllBlack(atk_new_img)
        /\ fs_pc = "done" => AllBlack(fs_new_img)

\* C2 amended: for a uniform input whose normalized luminance, as the program
\* computes it in f32, is exactly 0.5, output pixel (0,0) is black for both
\* kernels; every output pixel is black for atkinson when H = 1 and for
\* floyd_steinberg when W = H = 1; pixel (0,1) is white for both kernels when
\* H >= 2, and floyd_steinberg's pixel (1,0) is white when W >= 2.
C2_Amended ==
    UniformHalf =>
        /\ atk_pc = "done" =>
              /\ atk_new_img.px[0][0] = 0
              /\ H = 1 => AllBlack(atk_new_img)
              /\ H >= 2 => atk_new_img.px[0][1] = 255
        /\ fs_pc = "done" =>
              /\ fs_new_img.px[0][0] = 0
              /\ (W = 1 /\ H = 1) => AllBlack(fs_new_img)
              /\ H >= 2 => fs_new_img.px[0][1] = 255
              /\ W >= 2 => fs_new_img.px[1][0] = 255

\* both kernels have returned for a uniform 0.5 image of 3 x 3 pixels
C2_Witness ==
    /\ UniformHalf /\ W = 3 /\ H = 3
    /\ atk_pc = "done" /\ fs_pc = "done"
    /\ ~AllBlack(atk_new_img) /\ ~AllBlack(fs_new_img)

\* -------------------------------------------------------------------- C3
\* the buffer cells one step of a loop changes lie at or after (x, y) in both
\* coordinates and have not been visited
WritesAhead(pc, pcn, buffer, buffern, visits, visitsn, x, y) ==
    (pc = "loop" /\ pcn = "loop" /\ visitsn # visits) =>
        \A c \in Cells :
            buffern[c[1]][c[2]] # buffer[c[1]][c[2]] =>
                /\ c[1] >= x /\ c[2] >= y
                /\ c \notin Visited(visitsn)

\* C3: while pixel (x,y) is processed, every in-bounds diffusion write of
\* either kernel goes to a cell in the same or a later column with an equal or
\* greater row index, a cell not yet visited; no error is added to a cell
\* whose output bit has been decided.
C3_WritesOnlyAhead ==
    [][ /\ WritesAhead(atk_pc, atk_pc', atk_buffer, atk_buffer',
                       atk_visits, atk_visits', atk_x, atk_y)
        /\ WritesAhead(fs_pc, fs_pc', fs_buffer, fs_buffer',
                       fs_visits, fs_visits', fs_x, fs_y) ]_vars

\* -------------------------------------------------------------------- C4
\* the recorded increment_buffer call: its target and the cells of its buffer
IBTarget == <<ib.i + ib.offx, ib.j + ib.offy>>
IBCells == (0 .. VecLen(ib.before) - 1) \X (0 .. VecLen(ib.before[0]) - 1)
IBInRange == IBTarget \in IBCells

\* the call did not fault; with the target outside the buffer it changed
\* nothing; with the target in range it added value to that one cell
IBContract ==
    /\ ~ib.panicked
    /\ ~IBInRange => ib.after = ib.before
    /\ IBInRange =>
          /\ DOMAIN ib.after = DOMAIN ib.before
          /\ \A i \in DOMAIN ib.before : DOMAIN ib.after[i] = DOMAIN ib.before[i]
          /\ \A c \in IBCells :
                ib.after[c[1]][c[2]] =
                    IF c = IBTarget
                    THEN F32Add(ib.before[c[1]][c[2]], ib.value)
                    ELSE ib.before[c[1]][c[2]]

\* C4: increment_buffer does not fault; with the target (i+offx, j+offy)
\* outside [0,W) x [0,H) it leaves the buffer unchanged; with the target in
\* range it adds value to that one cell and leaves every other cell unchanged.
C4_IncrementBuffer == ib.called => IBContract

\* a call from the last column of a buffer two columns wide whose target is
\* one column past the right edge and in range by row: nothing changed
C4_Witness ==
    /\ ib.called /\ ib.value # Zero
    /\ VecLen(ib.before) = 2 /\ ib.i = 1
    /\ IBTarget[1] = VecLen(ib.before)
    /\ IBTarget[2] \in 0 .. VecLen(ib.before[0]) - 1
    /\ ~ib.panicked /\ ib.after = ib.before

\* a call whose target is in range and is another cell than (i, j): that
\* cell, and no other, has changed
IBCallInRange ==
    /\ ib.called /\ IBInRange /\ IBTarget # <<ib.i, ib.j>>
    /\ ib.after[IBTarget[1]][IBTarget[2]] # ib.before[IBTarget[1]][IBTarget[2]]
    /\ ib.after[ib.i][ib.j] = ib.before[ib.i][ib.j]

\* ------------------------------------------------------------- C5 and C6
\* new_pxl of the step that visited (x, y), read from the output pixel
NewPxl(new_imgn, x, y) == IF new_imgn.px[x][y] = 255 THEN One ELSE Zero

\* d * (cell c after - cell c before) = k * (old - new) as real numbers: the
\* cell gained k/d of the quantization error
GainIsShare(buffer, buffern, new_imgn, x, y, c, k, d) ==
    RealZero(<< <<d, buffern[c[1]][c[2]]>>, <<0 - d, buffer[c[1]][c[2]]>>,
                <<0 - k, buffer[x][y]>>, <<k, NewPxl(new_imgn, x, y)>> >>)

\* the terms d * (after - before) of the cells of S
RECURSIVE GainTerms(_, _, _, _)
GainTerms(buffer, buffern, S, d) ==
    IF S = {} THEN << >>
    ELSE LET c == CHOOSE a \in S : TRUE
         IN  << <<d, buffern[c[1]][c[2]]>>, <<0 - d, buffer[c[1]][c[2]]>> >>
                 \o GainTerms(buffer, buffern, S \ {c}, d)

\* d * (what the step added to all cells together) = k * (old - new)
TotalIsShare(buffer, buffern, new_imgn, x, y, k, d) ==
    RealZero(GainTerms(buffer, buffern, Cells, d)
                 \o << <<0 - k, buffer[x][y]>>, <<k, NewPxl(new_imgn, x, y)>> >>)

Unchanged(buffer, buffern, S) ==
    \A c \in S : buffern[c[1]][c[2]] = buffer[c[1]][c[2]]

\* the f32 value cell + error * k / d that the code stores
F32Gain(buffer, new_imgn, x, y, c, k, d) ==
    F32Add(buffer[c[1]][c[2]],
           Share(F32Sub(buffer[x][y], NewPxl(new_imgn, x, y)), k, d))

FloydTargets(x, y) == {<<x + 1, y>>, <<x - 1, y + 1>>, <<x, y + 1>>, <<x + 1, y + 1>>}

\* the four gains are the shares 7/16, 3/16, 5/16, 1/16 as real numbers
FloydGainsExact(buffer, buffern, new_imgn, x, y) ==
    /\ GainIsShare(buffer, buffern, new_imgn, x, y, <<x + 1, y>>, 7, 16)
    /\ GainIsShare(buffer, buffern, new_imgn, x, y, <<x - 1, y + 1>>, 3, 16)
    /\ GainIsShare(buffer, buffern, new_imgn, x, y, <<x, y + 1>>, 5, 16)
    /\ GainIsShare(buffer, buffern, new_imgn, x, y, <<x + 1, y + 1>>, 1, 16)

FloydStepStated(buffer, buffern, new_imgn, x, y) ==
    /\ FloydGainsExact(buffer, buffern, new_imgn, x, y)
    /\ Unchanged(buffer, buffern, Cells \ FloydTargets(x, y))
    /\ TotalIsShare(buffer, buffern, new_imgn, x, y, 1, 1)

FloydStepRounded(buffer, buffern, new_imgn, x, y) ==
    /\ buffern[x + 1][y] = F32Gain(buffer, new_imgn, x, y, <<x + 1, y>>, 7, 16)
    /\ buffern[x - 1][y + 1] = F32Gain(buffer, new_imgn, x, y, <<x - 1, y + 1>>, 3, 16)
    /\ buffern[x][y + 1] = F32Gain(buffer, new_imgn, x, y, <<x, y + 1>>, 5, 16)
    /\ buffern[x + 1][y + 1] = F32Gain(buffer, new_imgn, x, y, <<x + 1, y + 1>>, 1, 16)
    /\ Unchanged(buffer, buffern, Cells \ FloydTargets(x, y))
    /\ RealZero(<< <<1, F32Sub(buffer[x][y], NewPxl(new_imgn, x, y))>>,
                   <<0 - 1, buffer[x][y]>>, <<1, NewPxl(new_imgn, x, y)>> >>)
    /\ FloydGainsExact(buffer, buffern, new_imgn, x, y)
          => TotalIsShare(buffer, buffern, new_imgn, x, y, 1, 1)

\* a floyd_steinberg step at a pixel whose four targets are in bounds
FloydInterior ==
    /\ fs_pc = "loop" /\ fs_visits' # fs_visits
    /\ fs_x >= 1 /\ fs_x + 1 < W /\ fs_y + 1 < H

\* C5 as stated: in one floyd_steinberg step at a pixel (x,y) whose four
\* targets are in bounds, (x+1,y), (x-1,y+1), (x,y+1), (x+1,y+1) gain 7/16,
\* 3/16, 5/16 and 1/16 of the error, no other cell changes, and the total
\* added to the buffer is exactly the quantization error old - new of (x,y).
C5_Original ==
    [][ FloydInterior
        => FloydStepStated(fs_buffer, fs_buffer', fs_new_img', fs_x, fs_y) ]_vars

\* C5 amended: in such a step the four cells become the f32 values
\* cell + error*7.0/16.0, cell + error*3.0/16.0, cell + error*5.0/16.0 and
\* cell + error*1.0/16.0, each product and each sum rounded to the nearest
\* f32; error is old - new without rounding; no other cell changes; and the
\* total added to the buffer is the quantization error whenever the four
\* gains are the exact shares.
C5_FloydStep ==
    [][ FloydInterior
        => FloydStepRounded(fs_buffer, fs_buffer', fs_new_img', fs_x, fs_y) ]_vars

\* floyd_steinberg has just processed pixel (1,0) of an image at least 3 x 2,
\* and the product error * 7.0 it formed there was rounded
C5_Witness ==
    /\ fs_pc = "loop" /\ W >= 3 /\ H >= 2
    /\ fs_visits # << >> /\ Last(fs_visits) = <<1, 0>>
    /\ LET e == Error(fs_buffer[1][0])
       IN  ~RealZero(<< <<16, Share(e, 7, 16)>>, <<0 - 7, e>> >>)

\* the gains are the shares 2/8, 2/8, 1/8, 1/8 as real numbers
AtkinsonGainsExact(buffer, buffern, new_imgn, x, y) ==
    /\ GainIsShare(buffer, buffern, new_imgn, x, y, <<x, y + 1>>, 2, 8)
    /\ GainIsShare(buffer, buffern, new_imgn, x, y, <<x, y + 2>>, 2, 8)
    /\ GainIsShare(buffer, buffern, new_imgn, x, y, <<x - 1, y + 1>>, 1, 8)
    /\ GainIsShare(buffer, buffern, new_imgn, x, y, <<x + 1, y + 1>>, 1, 8)

AtkinsonTargets(x, y) ==
    {<<x, y + 1>>, <<x, y + 2>>, <<x - 1, y + 1>>, <<x + 1, y + 1>>}

AtkinsonStepStated(buffer, buffern, new_imgn, x, y) ==
    /\ AtkinsonGainsExact(buffer, buffern, new_imgn, x, y)
    /\ Unchanged(buffer, buffern, {<<x + 1, y>>, <<x + 2, y>>} \cap Cells)
    /\ TotalIsShare(buffer, buffern, new_imgn, x, y, 3, 4)

AtkinsonStepRounded(buffer, buffern, new_imgn, x, y) ==
    LET v == Share(F32Sub(buffer[x][y], NewPxl(new_imgn, x, y)), 1, 8)
    IN  /\ buffern[x][y + 1] = F32Add(F32Add(buffer[x][y + 1], v), v)
        /\ buffern[x][y + 2] = F32Add(F32Add(buffer[x][y + 2], v), v)
        /\ buffern[x - 1][y + 1] = F32Add(buffer[x - 1][y + 1], v)
        /\ buffern[x + 1][y + 1] = F32Add(buffer[x + 1][y + 1], v)
        /\ Unchanged(buffer, buffern, {<<x + 1, y>>, <<x + 2, y>>} \cap Cells)
        /\ Unchanged(buffer, buffern, Cells \ AtkinsonTargets(x, y))
        /\ RealZero(<< <<8, v>>, <<0 - 1, buffer[x][y]>>,
                       <<1, NewPxl(new_imgn, x, y)>> >>)
        /\ AtkinsonGainsExact(buffer, buffern, new_imgn, x, y)
              => TotalIsShare(buffer, buffern, new_imgn, x, y, 3, 4)

\* an atkinson step at a pixel whose four targets are in bounds
AtkinsonInterior ==
    /\ atk_pc = "loop" /\ atk_visits' # atk_visits
    /\ atk_x >= 1 /\ atk_x + 1 < W /\ atk_y + 2 < H

OwnPixel == IF F32Gt(Normalized(img.px[0][0]), Half) THEN 255 ELSE 0

\* C7: for a 1 x 1 image and either kernel, the single cell of the buffer is
\* never changed by the diffusion step (it keeps the value it was filled
\* with), and the single output pixel is white exactly when the pixel's own
\* normalized luminance (as the program computes it, in f32) is greater than
\* 0.5, black otherwise.
C7_OneByOne ==
    (W = 1 /\ H = 1) =>
        /\ atk_pc \in {"loop", "done"} => atk_buffer = FillBuffer(img)
        /\ fs_pc \in {"loop", "done"} => fs_buffer = FillBuffer(img)
        /\ atk_pc = "done" => atk_new_img.px[0][0] = OwnPixel
        /\ fs_pc = "done" => fs_new_img.px[0][0] = OwnPixel
        /\ atk_pc # "panic" /\ fs_pc # "panic"

\* 10000 * (0.2126 r + 0.7152 g + 0.0722 b) without rounding
ExactLuminosity(pixel) == 2126 * pixel[1] + 7152 * pixel[2] + 722 * pixel[3]

\* both kernels have returned white for the 1 x 1 image of rgba(78,146,90,255),
\* whose luminosity is 127.5 without rounding and 127.50001 in f32, whose
\* normalized luminance is the f32 next above 0.5, and whose error had nowhere
\* to go
C7_Witness ==
    /\ W = 1 /\ H = 1 /\ atk_pc = "done" /\ fs_pc = "done"
    /\ img.px[0][0] = <<78, 146, 90, 255>>
    /\ 2 * ExactLuminosity(img.px[0][0]) = 255 * 10000
    /\ luminosity(img.px[0][0]) = <<16711681, -17>>
    /\ atk_buffer[0][0] = <<8388609, -24>> /\ fs_buffer[0][0] = <<8388609, -24>>
    /\ atk_new_img.px[0][0] = 255 /\ fs_new_img.px[0][0] = 255

\* ------------------------------------------------------------------- C10
\* lo <= v <= hi
F32Between(v, lo, hi) == ~F32Lt(v, lo) /\ ~F32Lt(hi, v)

\* the value about to be read at a visit lies in [-0.5, 1.5] and its
\* quantization error in [-0.5, 0.5]
VisitInRange(pc, buffer, x, y) ==
    (pc = "loop" /\ x < W /\ y < H) =>
        LET old == buffer[x][y]
        IN  /\ F32Between(old, <<-8388608, -24>>, <<12582912, -23>>)
            /\ F32Between(Error(old), <<-8388608, -24>>, Half)

\* C10: for inputs with normalized luminances in [0,1] and both kernels, at
\* every pixel visit the value read from the buffer lies in [-0.5, 1.5] and
\* the quantization error old - new lies in [-0.5, 0.5].
C10_ErrorBounded ==
    /\ VisitInRange(atk_pc, atk_buffer, atk_x, atk_y)
    /\ VisitInRange(fs_pc, fs_buffer, fs_x, fs_y)

\* floyd_steinberg is about to read a value above 1.25
C10_Witness ==
    /\ fs_pc = "loop" /\ fs_x < W /\ fs_y < H
    /\ F32Gt(fs_buffer[fs_x][fs_y], <<10485760, -23>>)

\* -------------------------------------------------------------------- C9
\* the visits so far are the first cells of the column-major order
ColumnMajor(visits) ==
    \A k \in 1 .. Len(visits) : visits[k] = <<(k - 1) \div H, (k - 1) % H>>

\* a step changes an output pixel only if it is the visit of that pixel
WritesOwnPixel(pc, pcn, new_img, new_imgn, visits, visitsn) ==
    (pc = "loop" /\ pcn = "loop") =>
        \A c \in Cells :
            new_imgn.px[c[1]][c[2]] # new_img.px[c[1]][c[2]] => visitsn = Append(visits, c)

\* how far a pass has got: 0 before the call, then one more for the call, for
\* each visit, for each column finished and for the return
Progress(pc, visits, x) ==
    IF pc = "idle" THEN 0 ELSE Len(visits) + x + (IF pc = "done" THEN 2 ELSE 1)

\* C9: each kernel pass visits every cell exactly once in column-major order
\* ((x,y) before (x',y') exactly when x < x', or x = x' and y < y'), writes
\* the output cell of a pixel only at that pixel's visit, and terminates
\* after exactly W*H visits (none when W or H is 0): a pass that has been
\* called can take a step of its own until it returns, and unless main ended
\* before the passes (usage message, failed expect) a step is possible until
\* both have returned; every step of a pass is its call, one more visit, the
\* end of a column or its return; no pass makes more than W*H visits, and a
\* pass that has returned has made W*H.
C9_Traversal ==
    /\ [](ColumnMajor(atk_visits) /\ ColumnMajor(fs_visits))
    /\ [](Len(atk_visits) <= W * H /\ Len(fs_visits) <= W * H)
    /\ [](atk_pc = "done" => Len(atk_visits) = W * H)
    /\ [](fs_pc = "done" => Len(fs_visits) = W * H)
    /\ []((atk_pc = "done" /\ fs_pc = "done") \/ main_pc \in {"returned", "panic"}
              \/ ENABLED Next)
    /\ [](atk_pc = "loop" => ENABLED (AtkinsonPixel \/ AtkinsonNextColumn \/ AtkinsonReturn))
    /\ [](fs_pc = "loop" => ENABLED (FloydPixel \/ FloydNextColumn \/ FloydReturn))
    /\ [][ /\ WritesOwnPixel(atk_pc, atk_pc', atk_new_img, atk_new_img',
                             atk_visits, atk_visits')
           /\ WritesOwnPixel(fs_pc, fs_pc', fs_new_img, fs_new_img',
                             fs_visits, fs_visits')
           /\ atk_vars' # atk_vars =>
                 Progress(atk_pc', atk_visits', atk_x') = Progress(atk_pc, atk_visits, atk_x) + 1
           /\ fs_vars' # fs_vars =>
                 Progress(fs_pc', fs_visits', fs_x') = Progress(fs_pc, fs_visits, fs_x) + 1 ]_vars

\* both passes have returned without a visit for an image with columns but no
\* row, and for an image with no column
PassOverNoRow ==
    atk_pc = "done" /\ fs_pc = "done" /\ W = 2 /\ H = 0 /\ atk_visits = << >>
PassOverNoColumn ==
    atk_pc = "done" /\ fs_pc = "done" /\ W = 0 /\ H = 2 /\ fs_visits = << >>

\* both passes have returned after twelve visits each of a 4 x 3 image
C9_Witness ==
    /\ atk_pc = "done" /\ fs_pc = "done" /\ W = 4 /\ H = 3
    /\ Len(atk_visits) = 12 /\ Len(fs_visits) = 12
    /\ Visited(atk_visits) = Cells /\ Visited(fs_visits) = Cells

====
